---- MODULE Spec2Model ----
(***************************************************************************)
(* The CircleWallpaper animation engine                                    *)
(* (src/app/components/CircleWallpaper.tsx) as a state machine.            *)
(*                                                                         *)
(* Numbers are fixed point:                                                *)
(*   lengths, scroll offsets, wave heights   1/1000 of a world unit        *)
(*   time                                    milliseconds                  *)
(*   angles                                  1/1000 rad                    *)
(*   opacities and opacity multipliers       1/10000                       *)
(*   ratios (cos, sin, spacing multipliers)  1/10000                       *)
(*   hash samples                            1/2^31 (the hash is computed  *)
(*                                           on all 32 bits, as a pair of  *)
(*                                           16-bit halves <<hi, lo>>)     *)
(***************************************************************************)
EXTENDS Integers, Sequences, FiniteSets, TLC

VARIABLES
    phase,              \* "unmounted" | "mounted" | "disposed": the effect's life
    clientWidth,        \* container.clientWidth  (host layout)
    clientHeight,       \* container.clientHeight (host layout)
    now,                \* the timestamp of the last frame, ms
    loadState,          \* "idle" | "pending" | "loaded" | "failed": loader.load
    listening,          \* resize listeners and observer are attached
    baseSeed,           \* <<hi, lo>>
    instancedCircles,   \* 0 = null, n = the n-th InstancedMesh allocated
    instanceCapacity,
    meshCount,          \* instancedCircles.count
    instanceMatrix,     \* instancedCircles.instanceMatrix: [x, y, z, s] per slot
    opacityArray,       \* instanceOpacityAttribute.array
                        \* (of both arrays the slots below instancedCircles.count
                        \* after a layout: the later ones are neither drawn nor read)
    currentWidth,
    currentHeight,
    currentViewWidth,
    currentViewHeight,
    scrollOffset,
    worldColumnOffset,
    layoutBaseOffset,
    lastTimestamp,      \* <<>> = null, <<t>> = t
    animationStopped,
    currentXSpacing,
    baseInstances,      \* baseInstancesRef.current
    baseOpacity,        \* baseOpacityRef.current
    layoutState,        \* layoutStateRef.current
    scrollGroupPos,     \* scrollGroup.position <<x, y>>
    circlesGroupPos,    \* circlesGroup.position <<x, y>>
    materialMap,        \* circleMaterial.map is set
    acquired,           \* resource handles acquired so far
    released,           \* resource handles released so far
    lastOp,             \* the callback that ran last, and the path it took
    stepDraws,          \* renderScene calls made by the last callback
    stepRebuilds,       \* layoutCircles calls made by the last callback
    lastRequired,       \* requiredCount of the last layoutCircles call, -1 if none
    sizedSinceMount,    \* the container has had a non-zero size at or since mount
    opacityLog,         \* per cell <<row, worldColumn>>: the base opacity first assigned, or -1
    probe               \* inputs and result of a function applied on its own

vars == <<phase, clientWidth, clientHeight, now, loadState, listening, baseSeed,
          instancedCircles, instanceCapacity, meshCount, instanceMatrix,
          opacityArray, currentWidth, currentHeight, currentViewWidth,
          currentViewHeight, scrollOffset, worldColumnOffset, layoutBaseOffset,
          lastTimestamp, animationStopped, currentXSpacing, baseInstances,
          baseOpacity, layoutState, scrollGroupPos, circlesGroupPos,
          materialMap, acquired, released, lastOp, stepDraws, stepRebuilds,
          lastRequired, sizedSinceMount, opacityLog, probe>>

(***************************************************************************)
(* Bounds of the model.                                                    *)
(***************************************************************************)
\* frame timestamps lie in 0..MaxTime ms
MaxTime == 4000

\* container sizes the host layout may give, <<clientWidth, clientHeight>>
ContainerSizes == {<<0, 0>>, <<800, 600>>, <<1200, 600>>}
\* a frame's timestamp less the timestamp of the frame before it, ms
FrameDeltas == {0, 2000, 4000}
\* session seeds: the fallback 0x9e3779b1 and one drawn value
Seeds == << <<40503, 31153>>, <<4660, 22136>> >>

(***************************************************************************)
(* Program constants.                                                      *)
(***************************************************************************)
GRID_COS == 9397
GRID_SIN == 3420
Y_SPACING_MULTIPLIER == 11610
X_SPACING_MULTIPLIER == 12196
MIN_OPACITY == 800
HALF_OPACITY == 5000
HORIZONTAL_SCROLL_SPEED == 2
CAMERA_DISTANCE == 45
GRID_PLANE_Z == 0
\* tan(CAMERA_FOV / 2) = tan(20 deg), in 1/100000
TAN_HALF_FOV == 36397

(***************************************************************************)
(* Arithmetic helpers.                                                     *)
(***************************************************************************)
Min(a, b) == IF a < b THEN a ELSE b
Max(a, b) == IF a > b THEN a ELSE b
Abs(a) == IF a < 0 THEN -a ELSE a
\* Math.floor, Math.ceil and Math.trunc of the quotient a / b, b > 0
Floor(a, b) == a \div b
Ceil(a, b) == -((-a) \div b)
Trunc(a, b) == IF a >= 0 THEN a \div b ELSE -((-a) \div b)

(***************************************************************************)
(* 32-bit unsigned arithmetic on <<hi, lo>> halves.                        *)
(***************************************************************************)
Bit(a, i) == (a \div (2^i)) % 2
XOR16(a, b) ==
      ((Bit(a, 0) + Bit(b, 0)) % 2)
    + ((Bit(a, 1) + Bit(b, 1)) % 2) * 2
    + ((Bit(a, 2) + Bit(b, 2)) % 2) * 4
    + ((Bit(a, 3) + Bit(b, 3)) % 2) * 8
    + ((Bit(a, 4) + Bit(b, 4)) % 2) * 16
    + ((Bit(a, 5) + Bit(b, 5)) % 2) * 32
    + ((Bit(a, 6) + Bit(b, 6)) % 2) * 64
    + ((Bit(a, 7) + Bit(b, 7)) % 2) * 128
    + ((Bit(a, 8) + Bit(b, 8)) % 2) * 256
    + ((Bit(a, 9) + Bit(b, 9)) % 2) * 512
    + ((Bit(a, 10) + Bit(b, 10)) % 2) * 1024
    + ((Bit(a, 11) + Bit(b, 11)) % 2) * 2048
    + ((Bit(a, 12) + Bit(b, 12)) % 2) * 4096
    + ((Bit(a, 13) + Bit(b, 13)) % 2) * 8192
    + ((Bit(a, 14) + Bit(b, 14)) % 2) * 16384
    + ((Bit(a, 15) + Bit(b, 15)) % 2) * 32768
\* u ^ v
Xor32(u, v) == <<XOR16(u[1], v[1]), XOR16(u[2], v[2])>>
\* ToUint32(a * k) for an integer a (|a| < 2^14) and a constant 0 <= k < 2^31
Mul32(a, k) ==
    LET kh == k \div 65536
        kl == k % 65536
        p == a * kl
    IN  <<(a * kh + (p \div 65536)) % 65536, p % 65536>>
\* (u << n) >>> 0, 0 < n < 16
Shl32(u, n) ==
    LET p == u[2] * (2^n)
    IN  <<(u[1] * (2^n) + (p \div 65536)) % 65536, p % 65536>>
\* u >>> n, 16 <= n < 32
Shr32(u, n) == <<0, u[1] \div (2^(n - 16))>>

(***************************************************************************)
(* Deterministic field generator.                                          *)
(***************************************************************************)
\* seed ^= seed << n and seed ^= seed >>> n
XorShl(seed, n) == Xor32(seed, Shl32(seed, n))
XorShr(seed, n) == Xor32(seed, Shr32(seed, n))
\* the mixed 32-bit seed of randomForCell, before the division by 2^32
HashCell(row, col, variant, seed) ==
    XorShl(XorShr(XorShl(Xor32(Xor32(Xor32(Mul32(row, 73856093), Mul32(col, 19349663)),
                                     Mul32(variant, 83492791)), seed),
                         13), 17), 5)
\* the halves of a 32-bit seed as seed / 4294967296 in 1/2^31 (the lowest bit
\* of the quotient is dropped)
Unit(h) == h[1] * 32768 + (h[2] \div 2)
randomForCell(row, col, variant, seed) == Unit(HashCell(row, col, variant, seed))

(***************************************************************************)
(* Opacity policy.                                                         *)
(***************************************************************************)
\* intensityRoll < 0.015 and intensityRoll < 0.055, on samples in 1/2^31
ROLL_FULL == 32212255
ROLL_HALF == 118111601
\* HALF_OPACITY - 0.05
DIM_CEILING == HALF_OPACITY - 500

\* the largest r in 0..64 with (r / 64)^5 <= s / 2^31
FifthRoot64(s) ==
    CHOOSE r \in 0..64 : /\ r^5 <= s \div 2
                         /\ (r = 64 \/ (r + 1)^5 > s \div 2)
\* Math.pow(s, FALLOFF_POWER) = s^3 * s^(1/5), in 1/65536
PowFalloff(s) ==
    LET h10 == s \div 2097152
    IN  (((h10 * h10 * h10) \div 16384) * FifthRoot64(s)) \div 64
\* 0.82 + s * 0.35
Jitter(s) == 8200 + ((3500 * (s \div 32768)) \div 65536)
\* MIN_OPACITY + (HALF_OPACITY - MIN_OPACITY) * base * jitter
DimValue(s1, s2) ==
    MIN_OPACITY
      + (((((HALF_OPACITY - MIN_OPACITY) * PowFalloff(s1)) \div 65536) * Jitter(s2))
           \div 10000)
\* a dim tier that is never capped
DimFloorOnly(value) == Max(MIN_OPACITY, value)
\* Math.min(HALF_OPACITY - 0.05, Math.max(MIN_OPACITY, value))
DimClamp(value) == Min(DIM_CEILING, Max(MIN_OPACITY, value))
\* the opacity layoutCircles gives a cell whose three samples are s0, s1, s2
OpacityFor(s0, s1, s2) ==
    IF s0 < ROLL_FULL THEN 10000
    ELSE IF s0 < ROLL_HALF THEN HALF_OPACITY
    ELSE DimClamp(DimValue(s1, s2))
\* the samples layoutCircles draws for a cell: variants 0, 1 and 2
CellSamples(row, worldCol, seed) ==
    [variant \in 0..2 |-> randomForCell(row, worldCol, variant, seed)]
\* the opacity of the samples a cell draws
OpacityOfSamples(s) == OpacityFor(s[0], s[1], s[2])
CellOpacity(row, worldCol, seed) == OpacityOfSamples(CellSamples(row, worldCol, seed))

(***************************************************************************)
(* Layout geometry: the part of layoutCircles that depends on the view     *)
(* size alone.                                                             *)
(***************************************************************************)
\* viewHeight = 2 * tan(fov / 2) * distanceToPlane
ViewHeight == (2 * TAN_HALF_FOV * (CAMERA_DISTANCE - GRID_PLANE_Z)) \div 100
\* viewWidth = viewHeight * camera.aspect, aspect = clientWidth / clientHeight
ViewWidth(cw, ch) == (ViewHeight * cw) \div ch

\* a diameter taken as one fraction of the smaller view dimension
DiameterOfSmaller(viewWidth, viewHeight) ==
    Max(200, (Min(viewWidth, viewHeight) * 7) \div 100)
Diameter(viewWidth, viewHeight) ==
    Max(200, Min((viewWidth * 7) \div 100, (viewHeight * 12) \div 100))
XSpacing(diameter) == (diameter * X_SPACING_MULTIPLIER) \div 10000
YSpacing(diameter) == (diameter * Y_SPACING_MULTIPLIER) \div 10000
Radius(diameter) == diameter \div 2
SafetyPadding(diameter) == Max((diameter * 12) \div 100, 200)
Margin(diameter) == Radius(diameter) + SafetyPadding(diameter)

\* the four corners of the view rectangle
Corners(viewWidth, viewHeight) ==
    LET halfWidth == viewWidth \div 2
        halfHeight == viewHeight \div 2
    IN  {<<-halfWidth, -halfHeight>>, <<-halfWidth, halfHeight>>,
         <<halfWidth, -halfHeight>>, <<halfWidth, halfHeight>>}
\* a corner in the grid's rotated frame
LocalX(c) == (c[1] * GRID_COS + c[2] * GRID_SIN) \div 10000
LocalY(c) == (c[2] * GRID_COS - c[1] * GRID_SIN) \div 10000
SetMin(S) == CHOOSE m \in S : \A n \in S : m <= n
SetMax(S) == CHOOSE m \in S : \A n \in S : m >= n
\* the bounds of the corners cs in the rotated frame, expanded by the margin m
BoundsOf(cs, m) ==
    [minLocalX |-> SetMin({LocalX(c) : c \in cs}) - m,
     maxLocalX |-> SetMax({LocalX(c) : c \in cs}) + m,
     minLocalY |-> SetMin({LocalY(c) : c \in cs}) - m,
     maxLocalY |-> SetMax({LocalY(c) : c \in cs}) + m]
LocalBounds(viewWidth, viewHeight) ==
    BoundsOf(Corners(viewWidth, viewHeight), Margin(Diameter(viewWidth, viewHeight)))

RowMin(minLocalY, ySpacing) == Floor(minLocalY, ySpacing) - 1
RowMax(maxLocalY, ySpacing) == Ceil(maxLocalY, ySpacing) + 1
\* (row & 1) !== 0 ? 0.5 : 0, in 1/1000
RowShift(row) == IF row % 2 # 0 THEN 500 ELSE 0
\* Math.floor(minLocalX / xSpacing - shift) - 1
ColMin(minLocalX, xSpacing, shift) ==
    Floor(1000 * minLocalX - shift * xSpacing, 1000 * xSpacing) - 1
\* a last column without the spare one
ColMaxTight(maxLocalX, xSpacing, shift) ==
    Ceil(1000 * maxLocalX - shift * xSpacing, 1000 * xSpacing)
\* Math.ceil(maxLocalX / xSpacing - shift) + 1
ColMax(maxLocalX, xSpacing, shift) ==
    Ceil(1000 * maxLocalX - shift * xSpacing, 1000 * xSpacing) + 1

\* the rows array of layoutCircles, in row order
RECURSIVE RowsFrom(_, _, _, _)
RowsFrom(row, rowMax, b, xSpacing) ==
    IF row > rowMax THEN <<>>
    ELSE LET shift == RowShift(row)
             cMin == ColMin(b.minLocalX, xSpacing, shift)
             cMax == ColMax(b.maxLocalX, xSpacing, shift)
         IN  IF cMax < cMin
               THEN RowsFrom(row + 1, rowMax, b, xSpacing)
               ELSE <<[row |-> row, shift |-> shift, cMin |-> cMin, cMax |-> cMax]>>
                      \o RowsFrom(row + 1, rowMax, b, xSpacing)
\* the rows between rowMin and rowMax of the bounds b
RowsWithin(b, xSpacing, ySpacing) ==
    RowsFrom(RowMin(b.minLocalY, ySpacing), RowMax(b.maxLocalY, ySpacing), b, xSpacing)
LayoutRows(viewWidth, viewHeight) ==
    RowsWithin(LocalBounds(viewWidth, viewHeight),
               XSpacing(Diameter(viewWidth, viewHeight)),
               YSpacing(Diameter(viewWidth, viewHeight)))
RECURSIVE RequiredCount(_)
RequiredCount(rows) ==
    IF rows = <<>> THEN 0
    ELSE (Head(rows).cMax - Head(rows).cMin + 1) + RequiredCount(Tail(rows))

\* the cells of one row, in column order: baseX, baseY, row, col, shift
RowCells(r, xSpacing, ySpacing) ==
    [j \in 1..(r.cMax - r.cMin + 1) |->
        LET col == r.cMin + j - 1
        IN  [baseX |-> ((col * 1000 + r.shift) * xSpacing) \div 1000,
             baseY |-> r.row * ySpacing,
             row |-> r.row, col |-> col, shift |-> r.shift]]
RECURSIVE CellsOf(_, _, _)
CellsOf(rows, xSpacing, ySpacing) ==
    IF rows = <<>> THEN <<>>
    ELSE RowCells(Head(rows), xSpacing, ySpacing) \o CellsOf(Tail(rows), xSpacing, ySpacing)

\* the cell's centre rotated into the view frame
RotatedX(c) == (c.baseX * GRID_COS - c.baseY * GRID_SIN) \div 10000
RotatedY(c) == (c.baseX * GRID_SIN + c.baseY * GRID_COS) \div 10000
\* the centre of the bounding box of the placed circles, halved sum
BoxCenter(cells, radius) ==
    LET n == 1..Len(cells)
        minX == SetMin({RotatedX(cells[i]) - radius : i \in n})
        maxX == SetMax({RotatedX(cells[i]) + radius : i \in n})
        minY == SetMin({RotatedY(cells[i]) - radius : i \in n})
        maxY == SetMax({RotatedY(cells[i]) + radius : i \in n})
    IN  <<(minX + maxX) \div 2, (minY + maxY) \div 2>>

\* everything layoutCircles derives from the view size: the diameter d, the
\* rows and the cells placed on them
Placement(d, rows, cells) ==
    [diameter |-> d, xSpacing |-> XSpacing(d), ySpacing |-> YSpacing(d),
     radius |-> Radius(d), margin |-> Margin(d), rows |-> rows,
     requiredCount |-> RequiredCount(rows), cells |-> cells,
     center |-> IF cells = <<>> THEN <<0, 0>> ELSE BoxCenter(cells, Radius(d))]
PlacementOn(d, rows) == Placement(d, rows, CellsOf(rows, XSpacing(d), YSpacing(d)))
Geometry(viewWidth, viewHeight) ==
    PlacementOn(Diameter(viewWidth, viewHeight), LayoutRows(viewWidth, viewHeight))

\* the view sizes updateSize can compute from the container sizes
ViewSizes ==
    {<<ViewWidth(s[1], s[2]), ViewHeight>> : s \in {t \in ContainerSizes : t[1] # 0 /\ t[2] # 0}}
\* Geometry, evaluated once per view size
GeometryTable == [v \in ViewSizes |-> Geometry(v[1], v[2])]
GeometryOf(viewWidth, viewHeight) == GeometryTable[<<viewWidth, viewHeight>>]

\* a hash of the column as laid out, whatever the column origin
HashColumnLocal(col, worldCol) == col
\* the column layoutCircles hands to randomForCell for a cell
HashColumn(col, worldCol) == worldCol
\* the rows of every geometry of the table t
RowsOfAll(t) == UNION {{t[v].rows[i] : i \in 1..Len(t[v].rows)} : v \in DOMAIN t}
\* the largest worldColumnOffset the frame timestamps allow with the table t
ShiftLimit(t) ==
    (MaxTime * HORIZONTAL_SCROLL_SPEED) \div SetMin({t[v].xSpacing : v \in DOMAIN t})
\* the rows and the world columns a layout can hand to randomForCell
Extent(rws, maxShift) ==
    [rowLo |-> SetMin({r.row : r \in rws}),
     nRows |-> SetMax({r.row : r \in rws}) - SetMin({r.row : r \in rws}) + 1,
     colLo |-> SetMin({r.cMin : r \in rws}),
     nCols |-> SetMax({r.cMax : r \in rws}) + maxShift - SetMin({r.cMin : r \in rws}) + 1]
ExtentOf(t) == Extent(RowsOfAll(t), ShiftLimit(t))
TableExtent == ExtentOf(GeometryTable)
\* the cells of the extent x, numbered row by row from 1
IndexIn(x, row, col) == (row - x.rowLo) * x.nCols + (col - x.colLo) + 1
RowAt(x, i) == x.rowLo + ((i - 1) \div x.nCols)
ColAt(x, i) == x.colLo + ((i - 1) % x.nCols)
SizeOf(x) == x.nRows * x.nCols
CellIndex(row, col) == IndexIn(TableExtent, row, col)
CellRow(i) == RowAt(TableExtent, i)
CellCol(i) == ColAt(TableExtent, i)
TableSize == SizeOf(TableExtent)
SeedIndex(seed) == CHOOSE n \in 1..Len(Seeds) : Seeds[n] = seed
\* base opacities, evaluated once per seed and cell of the extent x
OpacitiesOver(x) ==
    [i \in 1..(Len(Seeds) * SizeOf(x)) |->
        CellOpacity(RowAt(x, ((i - 1) % SizeOf(x)) + 1),
                    ColAt(x, ((i - 1) % SizeOf(x)) + 1),
                    Seeds[((i - 1) \div SizeOf(x)) + 1])]
OpacityTable == OpacitiesOver(TableExtent)
\* the opacity of a cell, read in the table t
Lookup(t, x, row, col, seed) == t[(SeedIndex(seed) - 1) * SizeOf(x) + IndexIn(x, row, col)]
CellOpacityOf(row, col, seed) == Lookup(OpacityTable, TableExtent, row, col, seed)

(***************************************************************************)
(* Wave animator arithmetic.                                               *)
(***************************************************************************)
\* Math.PI and 2 * Math.PI
PI_MILLI == 3142
TWO_PI_MILLI == 6283
\* sin on [0, pi], Bhaskara's rational approximation, result in 1/1000
SinHalf(x) ==
    LET q == x * (PI_MILLI - x)
    IN  ((q \div 2) * 1000) \div ((((5 * PI_MILLI * PI_MILLI) \div 4) - q) \div 8)
SinTable ==
    [m \in 0..(TWO_PI_MILLI - 1) |->
        IF m <= PI_MILLI THEN SinHalf(m) ELSE -SinHalf(m - PI_MILLI)]
\* Math.sin
Sin(a) == SinTable[a % TWO_PI_MILLI]
\* the JavaScript remainder a % b: the sign of the dividend
JsRem(a, b) == a - b * Trunc(a, b)
\* Math.pow(x, 0.3) on [0, 1], linear between the values at the tenths
Pow03Knots == <<0, 501, 617, 697, 760, 812, 858, 899, 935, 969, 1000>>
Pow03(x) ==
    LET k == x \div 100
    IN  IF k >= 10 THEN 1000
        ELSE Pow03Knots[k + 1]
               + (((Pow03Knots[k + 2] - Pow03Knots[k + 1]) * (x % 100)) \div 100)
\* THREE.MathUtils.clamp and lerp (t in 1/1000)
Clamp(v, lo, hi) == Max(lo, Min(hi, v))
Lerp(a, b, t) == a + (((b - a) * t) \div 1000)

\* waveParamsRef.current
waveParams ==
    [speed |-> 1200, secondaryFrequency |-> 1500, rippleFrequencyX |-> 2500,
     rippleFrequencyZ |-> 1800, rippleSpeed |-> 3000, pulseSpeed |-> 1500,
     pulseSpatialX |-> 800, pulseSpatialZ |-> 600]

\* worldX of an instance
WaveWorldX(data, xSpacing, globalScrollOffset) ==
    (((data.worldColumn * 1000 + data.shift) * xSpacing) \div 1000) - globalScrollOffset
\* totalWaveHeight of an instance at time t (ms)
TotalWaveHeight(data, ls, t, globalScrollOffset) ==
    LET worldX == WaveWorldX(data, ls.xSpacing, globalScrollOffset)
        worldZ == data.baseY
        tw == (t * waveParams.speed) \div 1000
        primaryWave ==
            (Sin(((worldX * 1000) \div ls.waveLength) + tw) * ls.amplitude) \div 1000
        secondaryWave ==
            (Sin(((worldZ * 1000) \div ((ls.waveLength * 7) \div 10))
                 + ((worldX * 1000) \div ((ls.waveLength * 13) \div 10))
                 + ((tw * waveParams.secondaryFrequency) \div 1000))
               * ls.secondaryAmplitude) \div 1000
        ripples ==
            (Sin(((worldX * waveParams.rippleFrequencyX) \div 1000)
                 + ((worldZ * waveParams.rippleFrequencyZ) \div 1000)
                 + ((t * waveParams.rippleSpeed) \div 1000))
               * ls.rippleAmplitude) \div 1000
    IN  primaryWave + secondaryWave + ripples
\* a finalMultiplier made of the wave part alone, without the pulse highlight
FinalMultiplierWaveOnly(data, ls, t, globalScrollOffset) ==
    LET total == TotalWaveHeight(data, ls, t, globalScrollOffset)
        amplitudeSafe == Max(1, ls.amplitude * 1000)
        waveIntensity ==
            Clamp(((total * 1000 + amplitudeSafe) * 500) \div amplitudeSafe, 0, 1000)
    IN  Lerp(9000, 11000, waveIntensity)
\* finalMultiplier of an instance, in 1/10000
FinalMultiplier(data, ls, t, globalScrollOffset) ==
    LET worldX == WaveWorldX(data, ls.xSpacing, globalScrollOffset)
        worldZ == data.baseY
        total == TotalWaveHeight(data, ls, t, globalScrollOffset)
        \* Math.max(1e-6, amplitude), in 1/1000000
        amplitudeSafe == Max(1, ls.amplitude * 1000)
        waveIntensity ==
            Clamp(((total * 1000 + amplitudeSafe) * 500) \div amplitudeSafe, 0, 1000)
        pulsePhase ==
            JsRem(((t * waveParams.pulseSpeed) \div 1000)
                    + ((worldX * waveParams.pulseSpatialX) \div 1000)
                    + ((worldZ * waveParams.pulseSpatialZ) \div 1000),
                  TWO_PI_MILLI)
        pulseIntensity == (Sin(pulsePhase) + 1000) \div 2
        sharpPulse == Pow03(pulseIntensity)
        baseMultiplier == Lerp(9000, 11000, waveIntensity)
        highlightMultiplier == Lerp(10000, 12000, sharpPulse)
    IN  (baseMultiplier * highlightMultiplier) \div 10000
\* opacityArray[index] after the update
LiveOpacity(base, multiplier) == Min(10000, (base * multiplier) \div 10000)

(***************************************************************************)
(* The engine: the closure of the effect and the three refs, as one        *)
(* record, and the functions of the closure as operators on it.            *)
(***************************************************************************)
\* lastTimestamp
Null == <<>>
\* resource handles
Renderer == <<"renderer", 0>>
Canvas == <<"canvas", 0>>
CircleGeometry == <<"geometry", 0>>
CircleMaterial == <<"material", 0>>
Texture == <<"texture", 0>>
Mesh(n) == <<"mesh", n>>

\* a layout state that claims data before any layout
InitialLayoutReady ==
    [hasData |-> TRUE, xSpacing |-> 1000, ySpacing |-> 1000, diameter |-> 1000,
     baseZ |-> GRID_PLANE_Z, scaleX |-> 1000, scaleY |-> 1000, amplitude |-> 1000,
     secondaryAmplitude |-> 150, rippleAmplitude |-> 50, waveLength |-> 4000]
\* the initial value of layoutStateRef, also restored by the cleanup
InitialLayoutState ==
    [hasData |-> FALSE, xSpacing |-> 1000, ySpacing |-> 1000, diameter |-> 1000,
     baseZ |-> GRID_PLANE_Z, scaleX |-> 1000, scaleY |-> 1000, amplitude |-> 1000,
     secondaryAmplitude |-> 150, rippleAmplitude |-> 50, waveLength |-> 4000]

\* the engine as a record of the state variables
Engine ==
    [baseSeed |-> baseSeed, instancedCircles |-> instancedCircles,
     instanceCapacity |-> instanceCapacity, meshCount |-> meshCount,
     instanceMatrix |-> instanceMatrix, opacityArray |-> opacityArray,
     currentWidth |-> currentWidth, currentHeight |-> currentHeight,
     currentViewWidth |-> currentViewWidth, currentViewHeight |-> currentViewHeight,
     scrollOffset |-> scrollOffset, worldColumnOffset |-> worldColumnOffset,
     layoutBaseOffset |-> layoutBaseOffset, lastTimestamp |-> lastTimestamp,
     animationStopped |-> animationStopped, currentXSpacing |-> currentXSpacing,
     baseInstances |-> baseInstances, baseOpacity |-> baseOpacity,
     layoutState |-> layoutState, scrollGroupPos |-> scrollGroupPos,
     circlesGroupPos |-> circlesGroupPos, materialMap |-> materialMap,
     acquired |-> acquired, released |-> released, lastOp |-> "none",
     stepDraws |-> 0, stepRebuilds |-> 0, lastRequired |-> lastRequired,
     opacityLog |-> opacityLog]
\* the state variables take the values of the record
Becomes(e) ==
    /\ baseSeed' = e.baseSeed
    /\ instancedCircles' = e.instancedCircles
    /\ instanceCapacity' = e.instanceCapacity
    /\ meshCount' = e.meshCount
    /\ instanceMatrix' = e.instanceMatrix
    /\ opacityArray' = e.opacityArray
    /\ currentWidth' = e.currentWidth
    /\ currentHeight' = e.currentHeight
    /\ currentViewWidth' = e.currentViewWidth
    /\ currentViewHeight' = e.currentViewHeight
    /\ scrollOffset' = e.scrollOffset
    /\ worldColumnOffset' = e.worldColumnOffset
    /\ layoutBaseOffset' = e.layoutBaseOffset
    /\ lastTimestamp' = e.lastTimestamp
    /\ animationStopped' = e.animationStopped
    /\ currentXSpacing' = e.currentXSpacing
    /\ baseInstances' = e.baseInstances
    /\ baseOpacity' = e.baseOpacity
    /\ layoutState' = e.layoutState
    /\ scrollGroupPos' = e.scrollGroupPos
    /\ circlesGroupPos' = e.circlesGroupPos
    /\ materialMap' = e.materialMap
    /\ acquired' = e.acquired
    /\ released' = e.released
    /\ lastOp' = e.lastOp
    /\ stepDraws' = e.stepDraws
    /\ stepRebuilds' = e.stepRebuilds
    /\ lastRequired' = e.lastRequired
    /\ opacityLog' = e.opacityLog

\* a capacity that grows to the required count and no further
ExactCapacity(required, capacity) == required
\* Math.max(required, Math.ceil(Math.max(1, instanceCapacity) * 1.2))
NextCapacity(required, capacity) == Max(required, Ceil(Max(1, capacity) * 12, 10))
\* required > instanceCapacity
NeedsGrowth(required, capacity) == required > capacity
\* the slots of a new InstancedMesh and of a new opacity attribute
IdentitySlot == [x |-> 0, y |-> 0, z |-> 0, s |-> 1000]
\* the number of instanced meshes allocated so far
MeshesAllocated(e) == Cardinality({h \in e.acquired : h[1] = "mesh"})

ensureInstanceCapacity(e, required) ==
    IF required <= 0
      THEN IF e.instancedCircles # 0
             THEN [e EXCEPT !.meshCount = 0, !.instanceMatrix = <<>>, !.opacityArray = <<>>]
             ELSE e
      ELSE LET grown ==
                 IF e.instancedCircles = 0 \/ NeedsGrowth(required, e.instanceCapacity)
                   THEN LET nextCapacity == NextCapacity(required, e.instanceCapacity)
                            n == MeshesAllocated(e) + 1
                        IN  [e EXCEPT
                               !.released = IF e.instancedCircles # 0
                                              THEN @ \cup {Mesh(e.instancedCircles)}
                                              ELSE @,
                               !.acquired = @ \cup {Mesh(n)},
                               !.instancedCircles = n,
                               !.instanceCapacity = nextCapacity,
                               !.meshCount = nextCapacity,
                               !.instanceMatrix = [i \in 1..nextCapacity |-> IdentitySlot],
                               !.opacityArray = [i \in 1..nextCapacity |-> 0]]
                   ELSE e
           IN  [grown EXCEPT !.meshCount = required]

\* worldCol = col + columnWorldOffset
WorldCol(col, columnWorldOffset) == col + columnWorldOffset

\* currentXSpacing and layoutBaseOffset as layoutCircles sets them, and the
\* rebuild counted
Measured(e, g) ==
    [e EXCEPT !.currentXSpacing = g.xSpacing,
              !.layoutBaseOffset = 0,
              !.stepRebuilds = @ + 1,
              !.lastRequired = g.requiredCount]
\* the baseInstances array: one record per cell, in row and column order
InstancesOf(g, columnWorldOffset, seed) ==
    [i \in 1..g.requiredCount |->
        [baseX |-> g.cells[i].baseX, baseY |-> g.cells[i].baseY,
         row |-> g.cells[i].row, col |-> g.cells[i].col,
         shift |-> g.cells[i].shift,
         worldColumn |-> WorldCol(g.cells[i].col, columnWorldOffset),
         baseOpacity |->
             CellOpacityOf(g.cells[i].row,
                           HashColumn(g.cells[i].col,
                                      WorldCol(g.cells[i].col, columnWorldOffset)),
                           seed)]]
\* the table cells of the world cells a layout places
WorldCells(g, columnWorldOffset) ==
    {CellIndex(g.cells[i].row, g.cells[i].col + columnWorldOffset) : i \in 1..g.requiredCount}
\* the log with the opacity of every world cell laid out for the first time
Logged(log, keys, columnWorldOffset, seed) ==
    [k \in 1..Len(log) |->
        IF log[k] = -1 /\ k \in keys
          THEN CellOpacityOf(CellRow(k),
                             HashColumn(CellCol(k) - columnWorldOffset, CellCol(k)),
                             seed)
          ELSE log[k]]
\* the per-instance loop, the recentring and the new layoutState
Populate(e, g, instances, columnWorldOffset) ==
    IF e.instancedCircles = 0 THEN e
    ELSE [e EXCEPT
            !.baseInstances = instances,
            !.baseOpacity = [i \in 1..g.requiredCount |-> instances[i].baseOpacity],
            !.opacityArray = [i \in 1..g.requiredCount |-> instances[i].baseOpacity],
            !.instanceMatrix =
                [i \in 1..g.requiredCount |->
                    [x |-> instances[i].baseX, y |-> instances[i].baseY,
                     z |-> GRID_PLANE_Z, s |-> g.diameter]],
            !.meshCount = g.requiredCount,
            !.circlesGroupPos = <<-g.center[1], -g.center[2]>>,
            !.layoutState =
                [hasData |-> TRUE, xSpacing |-> g.xSpacing,
                 diameter |-> g.diameter, baseZ |-> GRID_PLANE_Z,
                 scaleX |-> g.diameter, scaleY |-> g.diameter,
                 amplitude |-> 1000, secondaryAmplitude |-> 150,
                 rippleAmplitude |-> 50, waveLength |-> 4000],
            !.opacityLog = Logged(@, WorldCells(g, columnWorldOffset), columnWorldOffset,
                                 e.baseSeed)]
\* a rebuild left for a later frame
layoutDeferred(e, viewWidth, viewHeight, columnWorldOffset) == e
\* layoutCircles once the geometry g of the view is known
LayoutOn(e, g, columnWorldOffset) ==
    IF g.requiredCount <= 0
      THEN [ensureInstanceCapacity(Measured(e, g), 0) EXCEPT
              !.baseInstances = <<>>,
              !.baseOpacity = <<>>,
              !.layoutState = [@ EXCEPT !.hasData = FALSE]]
      ELSE Populate(ensureInstanceCapacity(Measured(e, g), g.requiredCount), g,
                    InstancesOf(g, columnWorldOffset, e.baseSeed), columnWorldOffset)
layoutCircles(e, viewWidth, viewHeight, columnWorldOffset) ==
    LayoutOn(e, GeometryOf(viewWidth, viewHeight), columnWorldOffset)

renderScene(e) == [e EXCEPT !.stepDraws = @ + 1]

\* the early returns of applyWaveAnimation
WaveSkips(e) ==
    \/ e.instancedCircles = 0
    \/ ~e.layoutState.hasData
    \/ e.meshCount <= 0
    \/ Len(e.baseInstances) < e.meshCount
    \/ Len(e.baseOpacity) < e.meshCount
    \/ e.layoutState.xSpacing = 0
    \/ e.layoutState.waveLength = 0

applyWaveAnimation(e, t) ==
    IF WaveSkips(e) THEN e
    ELSE LET ls == e.layoutState
             count == e.meshCount
         IN  [e EXCEPT
                !.instanceMatrix =
                    [i \in 1..Len(@) |->
                        IF i <= count
                          THEN [x |-> e.baseInstances[i].baseX,
                                y |-> e.baseInstances[i].baseY,
                                z |-> ls.baseZ
                                        + TotalWaveHeight(e.baseInstances[i], ls, t, e.scrollOffset),
                                s |-> ls.scaleX]
                          ELSE @[i]],
                !.opacityArray =
                    [i \in 1..Len(@) |->
                        IF i <= count
                          THEN LiveOpacity(e.baseOpacity[i],
                                           FinalMultiplier(e.baseInstances[i], ls, t, e.scrollOffset))
                          ELSE @[i]]]

updateSize(e, cw, ch) ==
    IF cw = 0 \/ ch = 0 THEN [e EXCEPT !.lastOp = "resize:skip"]
    ELSE LET e1 == [e EXCEPT !.currentWidth = cw,
                             !.currentHeight = ch,
                             !.currentViewWidth = ViewWidth(cw, ch),
                             !.currentViewHeight = ViewHeight,
                             !.scrollOffset = 0,
                             !.layoutBaseOffset = 0,
                             !.worldColumnOffset = 0,
                             !.scrollGroupPos = <<0, 0>>,
                             !.lastTimestamp = Null,
                             !.lastOp = "resize:rebuild"]
             e2 == layoutCircles(e1, e1.currentViewWidth, e1.currentViewHeight,
                                 e1.worldColumnOffset)
         IN  renderScene(applyWaveAnimation(e2, 0))

\* a crossing seen only after two spacings
CrossesTwice(offsetDelta, spacing) == Abs(offsetDelta) >= 2 * spacing
\* Math.abs(offsetDelta) >= spacing
Crosses(offsetDelta, spacing) == Abs(offsetDelta) >= spacing
\* one column per frame, whatever the distance
StepsByOne(offsetDelta, spacing) == IF offsetDelta >= 0 THEN 1 ELSE -1
\* Math.trunc(offsetDelta / spacing)
Steps(offsetDelta, spacing) == Trunc(offsetDelta, spacing)
\* scrollOffset - worldColumnOffset * spacing - layoutBaseOffset
OffsetDelta(e, spacing) ==
    e.scrollOffset - e.worldColumnOffset * spacing - e.layoutBaseOffset
\* scrollGroup.position for an offset delta
ScrollTranslation(offsetDelta) ==
    <<(-offsetDelta * GRID_COS) \div 10000, (-offsetDelta * GRID_SIN) \div 10000>>

\* the end of a frame that advanced: the scroll translation, the wave update
\* and the draw
Present(e, spacing, timestamp) ==
    renderScene([applyWaveAnimation(e, timestamp) EXCEPT
                   !.scrollGroupPos = ScrollTranslation(OffsetDelta(e, spacing))])

animate(e, timestamp) ==
    IF e.animationStopped THEN [e EXCEPT !.lastOp = "animate:stopped"]
    ELSE IF e.lastTimestamp = Null
      THEN renderScene(applyWaveAnimation(
               [e EXCEPT !.lastTimestamp = <<timestamp>>, !.lastOp = "animate:first"],
               timestamp))
    ELSE LET deltaMs == timestamp - e.lastTimestamp[1]
             e1 == [e EXCEPT !.lastTimestamp = <<timestamp>>]
         IN  IF deltaMs <= 0
               THEN renderScene([e1 EXCEPT !.lastOp = "animate:nonpositive"])
             ELSE IF \/ e1.currentWidth <= 0 \/ e1.currentHeight <= 0
                     \/ e1.currentViewWidth <= 0 \/ e1.currentViewHeight <= 0
               THEN renderScene([e1 EXCEPT !.lastOp = "animate:degenerate"])
             ELSE LET e2 == [e1 EXCEPT
                               !.scrollOffset = @ + deltaMs * HORIZONTAL_SCROLL_SPEED,
                               !.lastOp = "animate:advance"]
                      spacing == IF e.currentXSpacing > 0 THEN e.currentXSpacing ELSE 1000
                      offsetDelta == OffsetDelta(e2, spacing)
                      steps == IF Crosses(offsetDelta, spacing)
                                 THEN Steps(offsetDelta, spacing) ELSE 0
                      layoutNeedsUpdate == steps # 0
                      e3 == [e2 EXCEPT !.worldColumnOffset = @ + steps]
                  IN  Present(IF layoutNeedsUpdate /\ e.currentViewWidth > 0
                                   /\ e.currentViewHeight > 0
                                THEN layoutCircles(e3, e.currentViewWidth,
                                                   e.currentViewHeight,
                                                   e3.worldColumnOffset)
                                ELSE e3,
                              spacing, timestamp)

(***************************************************************************)
(* The state before the effect runs, and the callbacks.                    *)
(***************************************************************************)
NoProbe == <<>>
\* the refs and the closure variables at their initial values
EngineInit ==
    /\ phase = "unmounted"
    /\ now = 0
    /\ loadState = "idle"
    /\ listening = FALSE
    /\ baseSeed = <<0, 0>>
    /\ instancedCircles = 0
    /\ instanceCapacity = 0
    /\ meshCount = 0
    /\ instanceMatrix = <<>>
    /\ opacityArray = <<>>
    /\ currentWidth = 0
    /\ currentHeight = 0
    /\ currentViewWidth = 0
    /\ currentViewHeight = 0
    /\ scrollOffset = 0
    /\ worldColumnOffset = 0
    /\ layoutBaseOffset = 0
    /\ lastTimestamp = Null
    /\ animationStopped = FALSE
    /\ currentXSpacing = 1000
    /\ baseInstances = <<>>
    /\ baseOpacity = <<>>
    /\ layoutState = InitialLayoutState
    /\ scrollGroupPos = <<0, 0>>
    /\ circlesGroupPos = <<0, 0>>
    /\ materialMap = FALSE
    /\ acquired = {}
    /\ released = {}
    /\ lastOp = "none"
    /\ stepDraws = 0
    /\ stepRebuilds = 0
    /\ lastRequired = -1
    /\ sizedSinceMount = FALSE

Init ==
    /\ EngineInit
    /\ \E s \in ContainerSizes : clientWidth = s[1] /\ clientHeight = s[2]
    /\ opacityLog = <<>>
    /\ probe = NoProbe

\* the body of the effect: construction, loader.load, the first updateSize,
\* setAnimationLoop, the observer and the listeners
Mount ==
    /\ phase = "unmounted"
    /\ \E sn \in 1..Len(Seeds) :
         LET e0 == [Engine EXCEPT
                      !.baseSeed = Seeds[sn],
                      !.acquired = {Renderer, Canvas, CircleGeometry, CircleMaterial},
                      !.currentWidth = clientWidth,
                      !.currentHeight = clientHeight]
         IN  \E e1 \in {updateSize(e0, clientWidth, clientHeight)} :
                 Becomes([e1 EXCEPT !.lastOp = "mount"])
    /\ phase' = "mounted"
    /\ loadState' = "pending"
    /\ listening' = TRUE
    /\ sizedSinceMount' = (clientWidth # 0 /\ clientHeight # 0)
    /\ UNCHANGED <<clientWidth, clientHeight, now, probe>>

\* the host layout gives the container another size and the ResizeObserver
\* callback runs: updateSize
ContainerResized ==
    /\ listening
    /\ \E s \in ContainerSizes :
         /\ s # <<clientWidth, clientHeight>>
         /\ clientWidth' = s[1]
         /\ clientHeight' = s[2]
         /\ sizedSinceMount' = (sizedSinceMount \/ (s[1] # 0 /\ s[2] # 0))
         /\ \E e \in {updateSize(Engine, s[1], s[2])} : Becomes(e)
    /\ UNCHANGED <<phase, now, loadState, listening, probe>>

\* the window's resize or orientationchange listener: updateSize
WindowResized ==
    /\ listening
    /\ \E e \in {updateSize(Engine, clientWidth, clientHeight)} : Becomes(e)
    /\ UNCHANGED <<phase, clientWidth, clientHeight, now, loadState, listening,
                   sizedSinceMount, probe>>

\* the frame callback handed to renderer.setAnimationLoop; a frame that was
\* already scheduled may still fire after the cleanup
FrameTick ==
    /\ phase \in {"mounted", "disposed"}
    /\ \E d \in FrameDeltas :
         /\ now + d <= MaxTime
         /\ now' = now + d
         /\ \E e \in {animate(Engine, now + d)} : Becomes(e)
    /\ UNCHANGED <<phase, clientWidth, clientHeight, loadState, listening,
                   sizedSinceMount, probe>>

\* onLoad of loader.load
TextureLoaded ==
    /\ loadState = "pending"
    /\ loadState' = "loaded"
    /\ \E e \in {renderScene([Engine EXCEPT !.materialMap = TRUE,
                                              !.acquired = @ \cup {Texture},
                                              !.lastOp = "load"])} : Becomes(e)
    /\ UNCHANGED <<phase, clientWidth, clientHeight, now, listening,
                   sizedSinceMount, probe>>

\* onError of loader.load
TextureFailed ==
    /\ loadState = "pending"
    /\ loadState' = "failed"
    /\ \E e \in {[Engine EXCEPT !.lastOp = "loadFailed"]} : Becomes(e)
    /\ UNCHANGED <<phase, clientWidth, clientHeight, now, listening,
                   sizedSinceMount, probe>>

\* the handles the cleanup releases
CleanupReleases(e) ==
    {Canvas}
      \cup (IF e.instancedCircles # 0 THEN {Mesh(e.instancedCircles)} ELSE {})
      \cup {CircleGeometry, CircleMaterial, Renderer}

\* the function the effect returns
Cleanup ==
    /\ phase = "mounted"
    /\ phase' = "disposed"
    /\ listening' = FALSE
    /\ \E e \in {[Engine EXCEPT
                  !.animationStopped = TRUE,
                  !.released = @ \cup CleanupReleases(Engine),
                  !.instancedCircles = 0,
                  !.instanceCapacity = 0,
                  !.meshCount = 0,
                  !.instanceMatrix = <<>>,
                  !.opacityArray = <<>>,
                  !.baseInstances = <<>>,
                  !.baseOpacity = <<>>,
                  !.layoutState = InitialLayoutState,
                  !.lastOp = "cleanup"]} : Becomes(e)
    /\ UNCHANGED <<clientWidth, clientHeight, now, loadState, sizedSinceMount, probe>>

Next ==
    \/ Mount
    \/ ContainerResized
    \/ WindowResized
    \/ FrameTick
    \/ TextureLoaded
    \/ TextureFailed
    \/ Cleanup

Spec == Init /\ [][Next]_vars

(***************************************************************************)
(* The same engine with the log of assigned base opacities kept: the log   *)
(* is filled by layoutCircles once it has a slot per table cell.           *)
(***************************************************************************)
InitHistory ==
    /\ EngineInit
    /\ \E s \in ContainerSizes : clientWidth = s[1] /\ clientHeight = s[2]
    /\ opacityLog = [k \in 1..TableSize |-> -1]
    /\ probe = NoProbe

NextHistory ==
    \/ Mount
    \/ ContainerResized
    \/ FrameTick

SpecHistory == InitHistory /\ [][NextHistory]_vars

(***************************************************************************)
(* Properties of the scroll controller.                                    *)
(***************************************************************************)
\* the values of lastOp a frame callback that was not stopped leaves
AnimateOps == {"animate:first", "animate:nonpositive", "animate:degenerate", "animate:advance"}

\* C1: in every state, and so after every completed frame tick in any
\* interleaving of ticks and resizes, scrollOffset is less than one spacing
\* (currentXSpacing, the x-spacing of the last rebuild) away from
\* worldColumnOffset * spacing, and each component of the translation of the
\* scroll group is smaller than one spacing.
C1_ScrollWithinOneSpacing ==
    /\ Abs(scrollOffset - worldColumnOffset * currentXSpacing) < currentXSpacing
    /\ Abs(scrollGroupPos[1]) < currentXSpacing
    /\ Abs(scrollGroupPos[2]) < currentXSpacing
\* a frame tick that crossed two columns at once has completed
C1_Witness ==
    /\ lastOp = "animate:advance"
    /\ stepRebuilds = 1
    /\ worldColumnOffset = 2
    /\ scrollOffset > 2 * currentXSpacing

\* C2: a frame tick that advances the scroll rebuilds the layout, with a
\* changed worldColumnOffset, if and only if the advanced scrollOffset is at
\* least one spacing away from worldColumnOffset * spacing; a tick without
\* such a crossing leaves worldColumnOffset, the spacing and the static data
\* of every instance unchanged.
C2_RebuildIffCrossing ==
    [][lastOp' = "animate:advance" =>
         LET crossing ==
                 Abs(scrollOffset' - worldColumnOffset * currentXSpacing) >= currentXSpacing
         IN  /\ (stepRebuilds' = 1) <=> crossing
             /\ stepRebuilds' \in {0, 1}
             /\ crossing => worldColumnOffset' # worldColumnOffset
             /\ ~crossing => UNCHANGED <<worldColumnOffset, currentXSpacing,
                                         baseInstances, baseOpacity>>]_vars
\* a frame tick advanced the scroll without a crossing
C2_Witness ==
    /\ lastOp = "animate:advance"
    /\ stepRebuilds = 0
    /\ scrollOffset > 0
    /\ worldColumnOffset = 0
    /\ layoutState.hasData

(***************************************************************************)
(* Properties of the field generator across rebuilds.                      *)
(***************************************************************************)
\* C3: with the session seed fixed at mount, the base opacity stored for an
\* instance is the opacity first assigned to its (row, worldColumn) pair,
\* whatever rebuild, origin shift or resize assigned it: opacityLog keeps
\* the first assignment of every pair over the whole run.
C3_OpacityByWorldCell ==
    \A i \in 1..Len(baseInstances) :
        /\ baseInstances[i].worldColumn = baseInstances[i].col + worldColumnOffset
        /\ baseInstances[i].baseOpacity
             = opacityLog[CellIndex(baseInstances[i].row, baseInstances[i].worldColumn)]
        /\ baseOpacity[i] = baseInstances[i].baseOpacity
\* a rebuild after an origin shift has laid out columns an earlier rebuild
\* had already laid out under other column numbers
C3_Witness ==
    /\ worldColumnOffset > 0
    /\ stepRebuilds = 1
    /\ Len(baseInstances) > 0
    /\ \E i \in 1..Len(baseInstances) : baseInstances[i].worldColumn = 0

(***************************************************************************)
(* Properties of the resize path.                                          *)
(***************************************************************************)
\* C4: while the container has had zero width or height from mount onward,
\* the instance count is zero and no callback has issued a draw call.
C4_NoDrawWhileUnsized ==
    (phase = "mounted" /\ ~sizedSinceMount) => (meshCount = 0 /\ stepDraws = 0)
\* C4, the resize half: the notification that gives a container unsized
\* since the mount its first size rebuilds once and leaves instances.
C4_FirstSizeRebuildsOnce ==
    [][(~sizedSinceMount /\ sizedSinceMount') =>
         (stepRebuilds' = 1 /\ meshCount' > 0)]_vars

\* C5 as stated: a resize notification performs no rebuild and no draw in
\* its own callback.
C5_ResizeDeferred ==
    lastOp \in {"resize:rebuild", "resize:skip"} => (stepRebuilds = 0 /\ stepDraws = 0)
\* C5, amended: a resize notification with a non-zero container size is
\* acted upon inside its own callback, which rebuilds once, resets the
\* scroll state and draws once; one with a zero size does nothing.
C5_ResizeActsAtOnce ==
    /\ lastOp = "resize:rebuild" =>
          /\ stepRebuilds = 1
          /\ stepDraws = 1
          /\ meshCount = lastRequired
          /\ currentWidth = clientWidth /\ currentHeight = clientHeight
          /\ scrollOffset = 0 /\ worldColumnOffset = 0 /\ lastTimestamp = Null
          /\ scrollGroupPos = <<0, 0>>
    /\ lastOp = "resize:skip" => (stepRebuilds = 0 /\ stepDraws = 0)
\* a resize notification arrived after frames had advanced the scroll
C5_Witness ==
    /\ lastOp = "resize:rebuild"
    /\ now > 0
    /\ meshCount > 0
    /\ stepRebuilds = 1

(***************************************************************************)
(* Properties of the resources.                                            *)
(***************************************************************************)
\* C6: once the cleanup has run, every handle the engine acquired has been
\* released.
C6_AllReleased == phase = "disposed" => acquired \subseteq released

\* C7: while the engine is mounted the capacity is at least the active
\* count; no step lowers it; and a step allocates a mesh only when the
\* required count exceeds the capacity, to a capacity of at least the
\* required count and at least the ceiling of 1.2 times the old capacity.
C7_CapacityGrowth ==
    /\ [](phase = "mounted" => instanceCapacity >= meshCount)
    /\ [][phase' = "mounted" =>
            /\ instanceCapacity' >= instanceCapacity
            /\ instancedCircles' # instancedCircles =>
                  /\ lastRequired' > instanceCapacity
                  /\ instanceCapacity' >= lastRequired'
                  /\ 10 * instanceCapacity' >= 12 * instanceCapacity]_vars
\* a larger layout has reallocated and a smaller one then kept the capacity
C7_Witness ==
    /\ phase = "mounted"
    /\ lastOp = "resize:rebuild"
    /\ instancedCircles = 2
    /\ meshCount > 0
    /\ instanceCapacity > meshCount

\* C8: hasData is false whenever the last rebuild required no cell or no
\* rebuild has happened, hasData implies a positive active count and an
\* instance table of that length, and with hasData false or a zero count
\* applyWaveAnimation changes no instance transform and no live opacity.
C8_NoDataNoWave ==
    /\ lastRequired <= 0 => ~layoutState.hasData
    /\ layoutState.hasData =>
          (meshCount > 0 /\ Len(baseInstances) = meshCount /\ Len(baseOpacity) = meshCount)
    /\ (~layoutState.hasData \/ meshCount = 0) =>
          \A t \in {0, now, MaxTime} :
              /\ applyWaveAnimation(Engine, t).instanceMatrix = instanceMatrix
              /\ applyWaveAnimation(Engine, t).opacityArray = opacityArray
\* a frame callback ran the wave update before any layout
C8_Witness ==
    /\ lastOp = "animate:first"
    /\ ~layoutState.hasData
    /\ lastRequired = -1
    /\ stepDraws = 1

(***************************************************************************)
(* The opacity policy as a function of its samples: the samples are drawn  *)
(* from a set that holds both sides of every threshold, and from the cells *)
(* of both session seeds.                                                  *)
(***************************************************************************)
\* every variable but the probe
engineVars ==
    <<phase, clientWidth, clientHeight, now, loadState, listening, baseSeed,
      instancedCircles, instanceCapacity, meshCount, instanceMatrix,
      opacityArray, currentWidth, currentHeight, currentViewWidth,
      currentViewHeight, scrollOffset, worldColumnOffset, layoutBaseOffset,
      lastTimestamp, animationStopped, currentXSpacing, baseInstances,
      baseOpacity, layoutState, scrollGroupPos, circlesGroupPos,
      materialMap, acquired, released, lastOp, stepDraws, stepRebuilds,
      lastRequired, sizedSinceMount, opacityLog>>
\* the engine before the effect runs, without a container size
Idle ==
    /\ EngineInit
    /\ clientWidth = 0
    /\ clientHeight = 0
    /\ opacityLog = <<>>

\* samples in 1/2^31: the ends of [0, 1) and both sides of 0.015 and 0.055
RollSamples == {0, ROLL_FULL - 1, ROLL_FULL, ROLL_HALF - 1, ROLL_HALF, 2147483647}
FalloffSamples == {0, 536870912, 1073741824, 1610612736, 2000000000, 2147483647}
JitterSamples == {0, 1073741824, 2147483647}
\* the cells probed: rows -CellSpan..CellSpan, columns -CellSpan..CellSpan
CellSpan == 2
SampleProbes ==
    {[kind |-> "samples", cell |-> <<>>, s |-> <<s0, s1, s2>>, out |-> <<>>] :
        s0 \in RollSamples, s1 \in FalloffSamples, s2 \in JitterSamples}
CellProbes ==
    {[kind |-> "cell", cell |-> <<row, col, n>>, s |-> <<>>, out |-> <<>>] :
        row \in (-CellSpan)..CellSpan, col \in (-CellSpan)..CellSpan, n \in 1..Len(Seeds)}

InitOpacity == Idle /\ probe \in SampleProbes \cup CellProbes

\* the opacity branch of layoutCircles on three given samples
OpacityOfTriple ==
    /\ probe.kind = "samples"
    /\ probe.out = <<>>
    /\ probe' = [probe EXCEPT !.out = <<OpacityFor(probe.s[1], probe.s[2], probe.s[3])>>]
    /\ UNCHANGED engineVars
\* the opacity branch of layoutCircles on the samples randomForCell draws
\* for a cell
OpacityOfCell ==
    /\ probe.kind = "cell"
    /\ probe.out = <<>>
    /\ \E cs \in {CellSamples(probe.cell[1], probe.cell[2], Seeds[probe.cell[3]])} :
          probe' = [probe EXCEPT !.s = <<cs[0], cs[1], cs[2]>>,
                                 !.out = <<OpacityOfSamples(cs)>>]
    /\ UNCHANGED engineVars

NextOpacity ==
    \/ OpacityOfTriple
    \/ OpacityOfCell

SpecOpacity == InitOpacity /\ [][NextOpacity]_vars

\* C10: for every triple of samples the opacity is exactly 1 when
\* s0 < 0.015, exactly 0.5 when 0.015 <= s0 < 0.055, and otherwise
\* MIN_OPACITY + (0.5 - MIN_OPACITY) * s1^FALLOFF_POWER * (0.82 + 0.35 * s2)
\* clamped to [MIN_OPACITY, 0.45]; so every opacity lies in [MIN_OPACITY, 1].
C10_ThreeTiers ==
    probe.out # <<>> =>
        /\ probe.s[1] < ROLL_FULL => probe.out[1] = 10000
        /\ (probe.s[1] >= ROLL_FULL /\ probe.s[1] < ROLL_HALF) => probe.out[1] = 5000
        /\ probe.s[1] >= ROLL_HALF =>
              /\ probe.out[1] = Max(MIN_OPACITY, Min(4500, DimValue(probe.s[2], probe.s[3])))
              /\ probe.out[1] >= MIN_OPACITY
              /\ probe.out[1] <= 4500
        /\ probe.out[1] >= MIN_OPACITY
        /\ probe.out[1] <= 10000
        /\ \A k \in 1..3 : probe.s[k] >= 0 /\ probe.s[k] <= 2147483647
\* the dim tier met its ceiling: the unclamped value was above 0.45
C10_Witness ==
    /\ probe.out # <<>>
    /\ probe.s[1] >= ROLL_HALF
    /\ DimValue(probe.s[2], probe.s[3]) > 4500
    /\ probe.out[1] = 4500

(***************************************************************************)
(* The cell count of layoutCircles as a function of the container size.    *)
(***************************************************************************)
\* container widths 400, 600, ... and heights 300, 400, ...
WidthSteps == 8
HeightSteps == 7
ProbeSizes ==
    {<<400 + 200 * i, 300 + 100 * j>> : i \in 0..(WidthSteps - 1), j \in 0..(HeightSteps - 1)}
LayoutProbes ==
    {[kind |-> "layout", cell |-> <<>>, s |-> sz, out |-> <<>>] : sz \in ProbeSizes}

InitLayout == Idle /\ probe \in LayoutProbes

\* the rows, the count and the cells layoutCircles computes for the view of
\* a container size
CountCells ==
    /\ probe.kind = "layout"
    /\ probe.out = <<>>
    /\ probe' = [probe EXCEPT
                   !.out = <<Geometry(ViewWidth(probe.s[1], probe.s[2]), ViewHeight)>>]
    /\ UNCHANGED engineVars

NextLayout == CountCells

SpecLayout == InitLayout /\ [][NextLayout]_vars

\* the grid cell (row, col): its centre in the grid frame
CellAt(row, col, xSpacing, ySpacing) ==
    [baseX |-> ((col * 1000 + RowShift(row)) * xSpacing) \div 1000,
     baseY |-> row * ySpacing, row |-> row, col |-> col, shift |-> RowShift(row)]
\* the circle of radius m about the centre of cell c meets the view
\* rectangle: the centre, turned into the view frame, is within m of it
CircleMeetsView(c, m, viewWidth, viewHeight) ==
    LET dx == Max(Abs(RotatedX(c)) - (viewWidth \div 2), 0)
        dy == Max(Abs(RotatedY(c)) - (viewHeight \div 2), 0)
    IN  dx <= m /\ dy <= m /\ dx * dx + dy * dy <= m * m
\* the centre of cell (row, col) is less than two spacings outside the
\* bounds b of the view's corners in the grid frame
NearBounds(row, col, b, xSpacing, ySpacing) ==
    /\ (row + 2) * ySpacing > b.minLocalY
    /\ (row - 2) * ySpacing < b.maxLocalY
    /\ (col * 1000 + RowShift(row) + 2000) * xSpacing > 1000 * b.minLocalX
    /\ (col * 1000 + RowShift(row) - 2000) * xSpacing < 1000 * b.maxLocalX
\* the cells the layout g places, and a range of cells two wider on every side
PlacedCells(g) == {<<g.cells[i].row, g.cells[i].col>> : i \in 1..Len(g.cells)}
CandidateCells(g) ==
    ((SetMin({c[1] : c \in PlacedCells(g)}) - 2)..(SetMax({c[1] : c \in PlacedCells(g)}) + 2))
      \X ((SetMin({c[2] : c \in PlacedCells(g)}) - 2)..(SetMax({c[2] : c \in PlacedCells(g)}) + 2))
\* the candidate cells whose circle, enlarged to the margin, meets the view
MeetingCells(g, viewWidth, viewHeight) ==
    {c \in CandidateCells(g) :
        CircleMeetsView(CellAt(c[1], c[2], g.xSpacing, g.ySpacing), g.margin,
                        viewWidth, viewHeight)}

\* C9 as stated: the count equals the number of cells whose enlarged circle
\* meets the view rectangle.
C9_CountIsMeetingCells ==
    probe.out # <<>> =>
        probe.out[1].requiredCount
          = Cardinality(MeetingCells(probe.out[1], ViewWidth(probe.s[1], probe.s[2]),
                                     ViewHeight))
\* C9, amended: the count is the number of cells whose centre is less than
\* two spacings outside the bounding box, in the grid frame, of the view's
\* corners expanded by the margin; every cell whose enlarged circle meets
\* the view is among them, and some counted cells do not meet the view.
C9_CountCoversView ==
    probe.out # <<>> =>
        LET g == probe.out[1]
            vw == ViewWidth(probe.s[1], probe.s[2])
            b == LocalBounds(vw, ViewHeight)
            meeting == MeetingCells(g, vw, ViewHeight)
        IN  /\ g.requiredCount > 0
            /\ g.requiredCount = Len(g.cells)
            /\ g.requiredCount = Cardinality(PlacedCells(g))
            /\ PlacedCells(g)
                 = {c \in CandidateCells(g) :
                       NearBounds(c[1], c[2], b, g.xSpacing, g.ySpacing)}
            /\ meeting \subseteq PlacedCells(g)
            /\ Cardinality(meeting) < g.requiredCount
\* the layout of a container of 800 by 600 has been counted
C9_Witness ==
    /\ probe.out # <<>>
    /\ probe.s = <<800, 600>>
    /\ probe.out[1].requiredCount = 331

(***************************************************************************)
(* The opacity modulation of applyWaveAnimation as a function of one       *)
(* instance, the time, the scroll offset and the three amplitudes.         *)
(***************************************************************************)
\* the amplitudes <<amplitude, secondaryAmplitude, rippleAmplitude>>: all
\* zero, and the values layoutCircles writes
ZeroAmplitudes == <<0, 0, 0>>
WaveAmplitudes == {ZeroAmplitudes, <<1000, 150, 50>>}
\* frame times in ms, scroll offsets and base opacities probed
WaveTimes == {0, 250, 1000, 2500, 4000}
WaveScrolls == {0, 1000}
WaveBases == {MIN_OPACITY, DIM_CEILING, HALF_OPACITY, 10000}
\* the instances probed: rows and world columns -WaveSpan..WaveSpan
WaveSpan == 1
WaveProbes ==
    {[kind |-> "wave", cell |-> <<row, col>>, s |-> <<base, t, scroll, a>>, out |-> <<>>] :
        row \in (-WaveSpan)..WaveSpan, col \in (-WaveSpan)..WaveSpan,
        base \in WaveBases, t \in WaveTimes, scroll \in WaveScrolls, a \in WaveAmplitudes}
\* the layout state of a container of 800 by 600, with the amplitudes a
WaveLayoutState(a) ==
    [InitialLayoutState EXCEPT
        !.hasData = TRUE,
        !.xSpacing = XSpacing(Diameter(ViewWidth(800, 600), ViewHeight)),
        !.amplitude = a[1], !.secondaryAmplitude = a[2], !.rippleAmplitude = a[3]]
\* the instance of the cell (row, col) of that layout at column origin 0
WaveInstance(row, col) ==
    [worldColumn |-> col, shift |-> RowShift(row),
     baseY |-> row * YSpacing(Diameter(ViewWidth(800, 600), ViewHeight))]

InitWave == Idle /\ probe \in WaveProbes

\* the body of the instance loop of applyWaveAnimation: finalMultiplier and
\* opacityArray[index]
ModulateOpacity ==
    /\ probe.kind = "wave"
    /\ probe.out = <<>>
    /\ \E m \in {FinalMultiplier(WaveInstance(probe.cell[1], probe.cell[2]),
                                  WaveLayoutState(probe.s[4]), probe.s[2], probe.s[3])} :
          probe' = [probe EXCEPT !.out = <<LiveOpacity(probe.s[1], m), m>>]
    /\ UNCHANGED engineVars

NextWave == ModulateOpacity

SpecWave == InitWave /\ [][NextWave]_vars

PulseHighlight ==
    LET data == WaveInstance(probe.cell[1], probe.cell[2])
        worldX == WaveWorldX(data, WaveLayoutState(probe.s[4]).xSpacing, probe.s[3])
        pulsePhase ==
            JsRem(((probe.s[2] * waveParams.pulseSpeed) \div 1000)
                    + ((worldX * waveParams.pulseSpatialX) \div 1000)
                    + ((data.baseY * waveParams.pulseSpatialZ) \div 1000),
                  TWO_PI_MILLI)
    IN  10000 + 2 * Pow03((Sin(pulsePhase) + 1000) \div 2)
DiameterWidths == {40, 400, 600, 800, 1200, 1600}
DiameterHeights == {400, 600, 700, 1200}
DiameterSizes == DiameterWidths \X DiameterHeights
\* two containers, to compare their diameters
DiameterProbes ==
    {[kind |-> "diameter", cell |-> a, s |-> b, out |-> <<>>] :
        a \in DiameterSizes, b \in DiameterSizes}

InitDiameter == Idle /\ probe \in DiameterProbes

\* updateSize then layoutCircles, up to the diameter, for both containers
MeasureDiameters ==
    /\ probe.kind = "diameter"
    /\ probe.out = <<>>
    /\ probe' = [probe EXCEPT
                   !.out = <<Diameter(ViewWidth(probe.cell[1], probe.cell[2]), ViewHeight),
                             Diameter(ViewWidth(probe.s[1], probe.s[2]), ViewHeight)>>]
    /\ UNCHANGED engineVars

NextDiameter == MeasureDiameters

SpecDiameter == InitDiameter /\ [][NextDiameter]_vars

\* the smaller side of a container
SmallerSide(size) == Min(size[1], size[2])
\* the largest diameter: 0.12 * viewHeight
DiameterCap == (ViewHeight * 12) \div 100
\* C12: the diameter of a rebuild is a function of min(viewportW, viewportH)
\* alone and non-decreasing in it: min(w1, h1) <= min(w2, h2) implies
\* diameter(w1, h1) <= diameter(w2, h2), and equal minima give equal
\* diameters.
C12_DiameterBySmallerSide ==
    probe.out # <<>> =>
        /\ SmallerSide(probe.cell) <= SmallerSide(probe.s) => probe.out[1] <= probe.out[2]
        /\ SmallerSide(probe.cell) = SmallerSide(probe.s) => probe.out[1] = probe.out[2]
\* C12, amended: the diameter is max(0.2, min(0.07 * viewWidth,
\* 0.12 * viewHeight)) with viewWidth = viewHeight * w / h and viewHeight
\* fixed by the camera, so it lies in [0.2, 0.12 * viewHeight], is a
\* function of the aspect ratio w / h alone and is non-decreasing in it.
C12_DiameterByAspect ==
    probe.out # <<>> =>
        /\ \A i \in 1..2 : probe.out[i] >= 200 /\ probe.out[i] <= DiameterCap
        /\ probe.out[1] =
              Clamp((ViewWidth(probe.cell[1], probe.cell[2]) * 7) \div 100, 200, DiameterCap)
        /\ probe.cell[1] * probe.s[2] <= probe.s[1] * probe.cell[2] =>
              probe.out[1] <= probe.out[2]
        /\ probe.cell[1] * probe.s[2] = probe.s[1] * probe.cell[2] =>
              probe.out[1] = probe.out[2]
\* two containers with the same smaller side whose diameters differ, the
\* wider one at the cap
C12_Witness ==
    /\ probe.out # <<>>
    /\ SmallerSide(probe.cell) = SmallerSide(probe.s)
    /\ probe.out[1] < probe.out[2]
    /\ probe.out[2] = DiameterCap
    /\ probe.out[1] > 200

(***************************************************************************)
(* Callbacks after the cleanup (specification Spec).                       *)
(***************************************************************************)
\* the engine state a callback could mutate: scroll state, layout state,
\* instance table and buffers, material
engineState ==
    <<scrollOffset, worldColumnOffset, layoutBaseOffset, lastTimestamp,
      currentXSpacing, scrollGroupPos, circlesGroupPos, currentWidth, currentHeight,
      currentViewWidth, currentViewHeight, layoutState, baseInstances, baseOpacity,
      instancedCircles, instanceCapacity, meshCount, instanceMatrix, opacityArray,
      materialMap>>
\* C13: once the cleanup has run, no callback that fires afterwards (frame
\* tick, resize or orientation notification, completion or failure of the
\* texture load) issues a draw call or mutates engine state.
C13_InertAfterCleanup ==
    [][phase = "disposed" => (stepDraws' = 0 /\ UNCHANGED engineState)]_vars
\* C13, the callbacks that are inert after the cleanup: every callback
\* other than the completion of the texture load draws nothing and leaves
\* the engine state alone, and no resize notification is delivered.
C13_OthersInertAfterCleanup ==
    [][(phase = "disposed" /\ lastOp' # "load") =>
          (stepDraws' = 0 /\ stepRebuilds' = 0 /\ UNCHANGED engineState)]_vars
\* a frame tick and a load completion after the cleanup
C13_TickAfterCleanup == phase = "disposed" /\ lastOp = "animate:stopped"
C13_LoadAfterCleanup == phase = "disposed" /\ lastOp = "load" /\ stepDraws = 1

====
